---------------------------- MODULE Spec2Model ----------------------------
(***************************************************************************)
(* Model of actix-client-ip-cloudflare/src/fetch_cf_ips.rs: the TrustedIps *)
(* set (a builder over cidr_utils' IpCidrCombiner), its presets, Clone,    *)
(* the untagged CfIpsResponse decoding, try_from_response and the          *)
(* three-stage fetch_trusted_cf_ips.                                       *)
(*                                                                         *)
(* Addresses are kept at full width as octet sequences (4 octets for IPv4, *)
(* 16 for IPv6), so the presets are the real blocks.  A CIDR block is      *)
(* [fam, prefix, bits].  The IpCidrCombiner lives in the cidr_utils crate, *)
(* outside this repository's sources: it is modelled as the sorted vector  *)
(* with merge-on-insert that the design describes.                         *)
(***************************************************************************)
EXTENDS Integers, Sequences, FiniteSets, TLC

VARIABLES
    ips,      \* the TrustedIps value being built
    hist,     \* the blocks added so far, in call order
    prev,     \* the value the last operation was applied to
    lastOp,   \* the last operation applied
    pc,       \* position of the fetch / of the direct try_from_response call
    net,      \* outcome of the GET
    doc,      \* the JSON document of the response body
    res,      \* the decoded CfIpsResponse
    out,      \* the Result returned to the caller
    stages    \* the stages of fetch_trusted_cf_ips run so far, in order

vars == <<ips, hist, prev, lastOp, pc, net, doc, res, out, stages>>

setVars == <<ips, hist, prev, lastOp>>

fetchVars == <<pc, net, doc, res, out, stages>>

(***************************************************************************)
(* Bounds of the model.                                                    *)
(***************************************************************************)
\* Longest sequence of blocks added to one set.
MaxOps == 3

\* Longest CIDR list of one family in a response body.
MaxList == 2

(***************************************************************************)
(* Addresses and blocks.                                                   *)
(***************************************************************************)
\* Bit i (1 = most significant) of an octet sequence.
Bit(o, i) == (o[((i - 1) \div 8) + 1] \div (2 ^ (7 - ((i - 1) % 8)))) % 2

\* Number of host (unmasked) bits of octet k under a prefix length.
HostBits(k, bits) ==
    IF 8 * k <= bits THEN 0
    ELSE IF 8 * (k - 1) >= bits THEN 8
    ELSE 8 * k - bits

\* prefix & mask, octet by octet.
MaskOctets(o, bits) ==
    [k \in 1..Len(o) |-> (o[k] \div (2 ^ HostBits(k, bits))) * (2 ^ HostBits(k, bits))]

\* Ipv4Cidr::from_prefix_and_bits / Ipv6Cidr: the constructor masks the prefix.
from_prefix_and_bits(fam, prefix, bits) ==
    [fam |-> fam, prefix |-> MaskOctets(prefix, bits), bits |-> bits]

V4(a, b, c, d) == [fam |-> 4, oct |-> <<a, b, c, d>>]

\* An IPv6 address whose first two and last two octets are given, the rest zero.
V6(a, b, y, z) ==
    [fam |-> 6, oct |-> [k \in 1..16 |-> IF k = 1 THEN a ELSE IF k = 2 THEN b
                                         ELSE IF k = 15 THEN y ELSE IF k = 16 THEN z ELSE 0]]

\* ::ffff:a.b.c.d, the IPv4-mapped IPv6 address.
V6Mapped(a, b, c, d) ==
    [fam |-> 6, oct |-> [k \in 1..16 |-> IF k \in {11, 12} THEN 255
                                         ELSE IF k = 13 THEN a ELSE IF k = 14 THEN b
                                         ELSE IF k = 15 THEN c ELSE IF k = 16 THEN d ELSE 0]]

Cidr4(a, b, c, d, bits) == from_prefix_and_bits(4, <<a, b, c, d>>, bits)

Cidr6(a, b, y, z, bits) == from_prefix_and_bits(6, V6(a, b, y, z).oct, bits)

\* Ipv4Cidr::contains(ip): (ip & mask) = prefix.
CidrContains(c, o) ==
    \A k \in 1..Len(o) :
        (o[k] \div (2 ^ HostBits(k, c.bits))) * (2 ^ HostBits(k, c.bits)) = c.prefix[k]

\* Lexicographic order of octet sequences of one length (numeric order).
OctLT(a, b) == \E k \in 1..Len(a) : a[k] < b[k] /\ \A j \in 1..(k - 1) : a[j] = b[j]

\* Ord for a CIDR block: by first address, then by prefix length.
CidrLT(c, d) == OctLT(c.prefix, d.prefix) \/ (c.prefix = d.prefix /\ c.bits < d.bits)

\* d = p ^ q is the single bit 1 << (width - bits): p and q are the two
\* halves of one block of length bits - 1.
Sibling(p, q, bits) ==
    /\ bits >= 1
    /\ LET k == ((bits - 1) \div 8) + 1
           w == 2 ^ (7 - ((bits - 1) % 8))
       IN /\ \A m \in 1..Len(p) : m # k => p[m] = q[m]
          /\ Bit(p, bits) # Bit(q, bits)
          /\ (p[k] - q[k] = w \/ q[k] - p[k] = w)

RemoveAt(s, i) == [k \in 1..(Len(s) - 1) |-> IF k < i THEN s[k] ELSE s[k + 1]]

InsertAt(s, i, x) ==
    [k \in 1..(Len(s) + 1) |-> IF k < i THEN s[k] ELSE IF k = i THEN x ELSE s[k - 1]]

(***************************************************************************)
(* Ipv4CidrCombiner / Ipv6CidrCombiner: a sorted vector, merged on push.   *)
(***************************************************************************)
\* binary_search: the insertion point (1-based) of a block not in the vector.
SearchPos(arr, cidr) == 1 + Cardinality({k \in 1..Len(arr) : CidrLT(arr[k], cidr)})

RECURSIVE DropCovered(_, _, _)
\* Remove the blocks from position index on whose first address cidr contains.
DropCovered(arr, index, cidr) ==
    IF index > Len(arr) THEN arr
    ELSE IF CidrContains(cidr, arr[index].prefix)
         THEN DropCovered(RemoveAt(arr, index), index, cidr)
         ELSE arr

RECURSIVE Merge(_, _, _)
\* The merging loop: join cidr with an equal-length sibling after it, then
\* with one before it, until neither applies.
Merge(arr, index, cidr) ==
    LET withNext == /\ index <= Len(arr)
                    /\ arr[index].bits = cidr.bits
                    /\ Sibling(arr[index].prefix, cidr.prefix, cidr.bits)
        cidr1 == IF withNext
                 THEN from_prefix_and_bits(cidr.fam, cidr.prefix, cidr.bits - 1)
                 ELSE cidr
        arr1 == IF withNext THEN RemoveAt(arr, index) ELSE arr
        withPrev == /\ index > 1
                    /\ arr1[index - 1].bits = cidr1.bits
                    /\ Sibling(cidr1.prefix, arr1[index - 1].prefix, cidr1.bits)
        cidr2 == IF withPrev
                 THEN from_prefix_and_bits(cidr.fam, arr1[index - 1].prefix, cidr1.bits - 1)
                 ELSE cidr1
        arr2 == IF withPrev THEN RemoveAt(arr1, index - 1) ELSE arr1
        index2 == IF withPrev THEN index - 1 ELSE index
    IN IF withNext \/ withPrev
       THEN Merge(arr2, index2, cidr2)
       ELSE [arr |-> arr2, index |-> index2, cidr |-> cidr2]

\* CidrCombiner::push for one family.
CombinerPush(arr, cidr) ==
    IF \E k \in 1..Len(arr) : arr[k] = cidr THEN arr
    ELSE IF Len(arr) = 0 THEN <<cidr>>
    ELSE LET index == SearchPos(arr, cidr)
             pushable == IF index = 1 THEN TRUE
                         ELSE ~CidrContains(arr[index - 1], cidr.prefix)
         IN IF ~pushable THEN arr
            ELSE LET m == Merge(DropCovered(arr, index, cidr), index, cidr)
                 IN InsertAt(m.arr, m.index, m.cidr)

\* CidrCombiner::contains for one family: some stored block contains the address.
CombinerContains(arr, o) == \E k \in 1..Len(arr) : CidrContains(arr[k], o)

\* IpCidrCombiner::new / with_capacity: both families empty.
CombinerNew == [v4 |-> <<>>, v6 |-> <<>>]

\* IpCidrCombiner::push: dispatch on the block's family.
IpCombinerPush(comb, cidr) ==
    IF cidr.fam = 4
    THEN [comb EXCEPT !.v4 = CombinerPush(comb.v4, cidr)]
    ELSE [comb EXCEPT !.v6 = CombinerPush(comb.v6, cidr)]

\* IpCidrCombiner::contains: dispatch on the address's family.
IpCombinerContains(comb, ip) ==
    IF ip.fam = 4
    THEN CombinerContains(comb.v4, ip.oct)
    ELSE CombinerContains(comb.v6, ip.oct)

(***************************************************************************)
(* TrustedIps.                                                             *)
(***************************************************************************)
\* A set seeded with a block: what an empty constructor must not be.
new_with_loopback == [cidr_ranges |-> IpCombinerPush(CombinerNew, Cidr4(127, 0, 0, 0, 8))]

\* TrustedIps::new (and the derived Default).
new == [cidr_ranges |-> CombinerNew]

\* A builder that replaces the stored ranges by the new block.
add_ip_range_replacing(self, cidr) ==
    [cidr_ranges |-> IpCombinerPush(CombinerNew, cidr)]

\* A builder that appends to the family's vector without combining.
add_ip_range_appending(self, cidr) ==
    IF cidr.fam = 4
    THEN [cidr_ranges |-> [self.cidr_ranges EXCEPT !.v4 = Append(@, cidr)]]
    ELSE [cidr_ranges |-> [self.cidr_ranges EXCEPT !.v6 = Append(@, cidr)]]

\* TrustedIps::add_ip_range.
add_ip_range(self, cidr) == [cidr_ranges |-> IpCombinerPush(self.cidr_ranges, cidr)]

\* TrustedIps::add_loopback_ips.
add_loopback_ips(self) == add_ip_range(self, Cidr4(127, 0, 0, 0, 8))

\* A private preset completed with 172.16.0.0/12.
add_private_ips_full(self) ==
    add_ip_range(add_ip_range(add_ip_range(self, Cidr4(10, 0, 0, 0, 8)),
                              Cidr4(172, 16, 0, 0, 12)),
                 Cidr4(192, 168, 0, 0, 16))

\* TrustedIps::add_private_ips.
add_private_ips(self) ==
    add_ip_range(add_ip_range(self, Cidr4(10, 0, 0, 0, 8)), Cidr4(192, 168, 0, 0, 16))

\* TrustedIps::contains.
contains(self, ip) == IpCombinerContains(self.cidr_ranges, ip)

RECURSIVE FoldPush(_, _)
\* Push every block of a list, in order, into a combiner.
FoldPush(comb, list) ==
    IF list = <<>> THEN comb
    ELSE FoldPush(IpCombinerPush(comb, Head(list)), Tail(list))

\* A clone that rebuilds the IPv4 ranges only.
clone_v4_only(self) == [cidr_ranges |-> FoldPush(CombinerNew, self.cidr_ranges.v4)]

\* impl Clone for TrustedIps: export both families' lists and push them
\* into a fresh combiner, IPv4 first.
clone(self) ==
    [cidr_ranges |-> FoldPush(CombinerNew, self.cidr_ranges.v4 \o self.cidr_ranges.v6)]

(***************************************************************************)
(* CfIpsResponse and its decoding.  A JSON document is abstracted to the   *)
(* fields the derived Deserialize looks at: "result" (absent, not an       *)
(* object, or an object whose two list fields are each absent, not a list, *)
(* or a list of strings that each parse as a CIDR block or do not),        *)
(* "success" (absent, a boolean, or another type) and whether unrelated    *)
(* sibling fields are present.                                             *)
(***************************************************************************)
Untag(c) == [prefix |-> c.prefix, bits |-> c.bits]

Tag(fam, c) == [fam |-> fam, prefix |-> c.prefix, bits |-> c.bits]

Success(v4, v6) == [kind |-> "Success", result |-> [ipv4_cidrs |-> v4, ipv6_cidrs |-> v6]]

Failure(flag) == [kind |-> "Failure", success |-> flag]

NoResponse == [kind |-> "None"]

Ok(v) == [kind |-> "Ok", value |-> v]

Err(e) == [kind |-> "Err", err |-> e]

Pending == [kind |-> "Pending"]

Items(f) == [k \in 1..Len(f.items) |-> f.items[k].cidr]

\* Deserialize for the Success variant: a "result" object with both lists,
\* every element a valid block; unknown fields are ignored.
TrySuccess(d) ==
    IF /\ d.result.kind = "object"
       /\ d.result.ipv4_cidrs.kind = "list"
       /\ d.result.ipv6_cidrs.kind = "list"
       /\ \A k \in 1..Len(d.result.ipv4_cidrs.items) : d.result.ipv4_cidrs.items[k].valid
       /\ \A k \in 1..Len(d.result.ipv6_cidrs.items) : d.result.ipv6_cidrs.items[k].valid
    THEN Ok(Success(Items(d.result.ipv4_cidrs), Items(d.result.ipv6_cidrs)))
    ELSE Err("no match")

\* Deserialize for the Failure variant: a boolean "success" field.
TryFailure(d) ==
    IF d.success \in {"true", "false"}
    THEN Ok(Failure(d.success = "true"))
    ELSE Err("no match")

\* An untagged decoding that tries the Failure variant first.
DecodeFailureFirst(d) ==
    IF TryFailure(d).kind = "Ok" THEN TryFailure(d)
    ELSE IF TrySuccess(d).kind = "Ok" THEN TrySuccess(d)
    ELSE Err("data did not match any variant")

\* #[serde(untagged)] enum CfIpsResponse: the variants are tried in
\* declaration order, Success then Failure.
Decode(d) ==
    IF TrySuccess(d).kind = "Ok" THEN TrySuccess(d)
    ELSE IF TryFailure(d).kind = "Ok" THEN TryFailure(d)
    ELSE Err("data did not match any variant")

RECURSIVE TagAll(_, _)
TagAll(fam, list) ==
    IF list = <<>> THEN <<>> ELSE <<Tag(fam, Head(list))>> \o TagAll(fam, Tail(list))

\* A construction that turns a Failure carrying success: true into an empty set.
try_from_response_trusting_flag(r) ==
    IF r.kind = "Failure"
    THEN IF r.success THEN Ok([cidr_ranges |-> CombinerNew]) ELSE Err("Fetch")
    ELSE Ok([cidr_ranges |->
                FoldPush(FoldPush(CombinerNew, TagAll(4, r.result.ipv4_cidrs)),
                         TagAll(6, r.result.ipv6_cidrs))])

\* A construction that pushes the IPv4 list only.
try_from_response_v4_only(r) ==
    IF r.kind = "Failure" THEN Err("Fetch")
    ELSE Ok([cidr_ranges |-> FoldPush(CombinerNew, TagAll(4, r.result.ipv4_cidrs))])

\* TrustedIps::try_from_response.
try_from_response(r) ==
    IF r.kind = "Failure" THEN Err("Fetch")
    ELSE Ok([cidr_ranges |->
                FoldPush(FoldPush(CombinerNew, TagAll(4, r.result.ipv4_cidrs)),
                         TagAll(6, r.result.ipv6_cidrs))])

(***************************************************************************)
(* fetch_trusted_cf_ips, stage by stage.  Each stage yields the next       *)
(* position and, when it ends the call, the returned Result.               *)
(***************************************************************************)
\* client.get(CF_URL_IPS).send().await.map_err(..)?
SendStage(transportOk) ==
    IF transportOk
    THEN [pc |-> "sent", out |-> Pending]
    ELSE [pc |-> "done", out |-> Err("Fetch")]

\* A decode stage that carries on with an empty list when the body does not decode.
DecodeStageLenient(d) ==
    IF Decode(d).kind = "Ok"
    THEN [pc |-> "decoded", res |-> Decode(d).value, out |-> Pending]
    ELSE [pc |-> "decoded", res |-> Success(<<>>, <<>>), out |-> Pending]

\* res.json::<CfIpsResponse>().await.map_err(..)?
DecodeStage(d) ==
    IF Decode(d).kind = "Ok"
    THEN [pc |-> "decoded", res |-> Decode(d).value, out |-> Pending]
    ELSE [pc |-> "done", res |-> NoResponse, out |-> Err("Fetch")]

\* TrustedIps::try_from_response(res), the value of the call.
BuildStage(r) == [pc |-> "done", out |-> try_from_response(r)]

(***************************************************************************)
(* Inputs.                                                                 *)
(***************************************************************************)
BoundedSeq(S, n) == UNION {[1..k -> S] : k \in 0..n}

\* Blocks handed to add_ip_range: nested blocks, the two halves of a larger
\* block, adjacent blocks that are not halves of one block, both families.
Blocks ==
    { Cidr4(0, 0, 0, 0, 0), Cidr4(10, 0, 0, 0, 8), Cidr4(10, 0, 0, 0, 9),
      Cidr4(10, 128, 0, 0, 9), Cidr4(10, 0, 0, 0, 10), Cidr4(10, 64, 0, 0, 10),
      Cidr6(0, 0, 0, 0, 0), Cidr6(0, 0, 0, 0, 128), Cidr6(0, 0, 0, 1, 128),
      Cidr6(36, 0, 0, 0, 16) }

\* Addresses queried: the first and last address of every block in play,
\* their outer neighbours, and addresses of the other family.
Addrs ==
    { V4(0, 0, 0, 0), V4(9, 255, 255, 255), V4(10, 0, 0, 0), V4(10, 0, 1, 1),
      V4(10, 63, 255, 255), V4(10, 64, 0, 0), V4(10, 127, 255, 255), V4(10, 128, 0, 0),
      V4(10, 255, 255, 255), V4(11, 0, 0, 0), V4(126, 255, 255, 255), V4(127, 0, 0, 0),
      V4(127, 0, 0, 1), V4(127, 255, 255, 255), V4(128, 0, 0, 0), V4(172, 16, 0, 0),
      V4(172, 16, 0, 1), V4(172, 31, 255, 255), V4(192, 167, 255, 255), V4(192, 168, 0, 0),
      V4(192, 168, 1, 1), V4(192, 168, 255, 255), V4(192, 169, 0, 0),
      V4(255, 255, 255, 255),
      V6(0, 0, 0, 0), V6(0, 0, 0, 1), V6(0, 0, 0, 2), V6(35, 255, 255, 255),
      V6(36, 0, 0, 0), V6(36, 0, 255, 255), V6(36, 1, 0, 0), V6(255, 255, 255, 255),
      V6Mapped(127, 0, 0, 1), V6Mapped(10, 0, 1, 1) }

\* Elements of the "ipv4_cidrs" / "ipv6_cidrs" lists of a body.
ListBlocks4 == {Untag(Cidr4(0, 0, 0, 0, 0)), Untag(Cidr4(10, 0, 0, 0, 9)),
                Untag(Cidr4(10, 128, 0, 0, 9))}

ListBlocks6 == {Untag(Cidr6(0, 0, 0, 0, 0)), Untag(Cidr6(0, 0, 0, 1, 128))}

\* A list element that is not a valid block.
Invalid == [valid |-> FALSE, cidr |-> [prefix |-> <<>>, bits |-> 0]]

JsonItems(S) == {[valid |-> TRUE, cidr |-> c] : c \in S} \cup {Invalid}

JsonList(S) ==
    {[kind |-> "absent", items |-> <<>>], [kind |-> "other", items |-> <<>>]}
    \cup {[kind |-> "list", items |-> s] : s \in BoundedSeq(JsonItems(S), MaxList)}

JsonResult ==
    {[kind |-> k, ipv4_cidrs |-> [kind |-> "absent", items |-> <<>>],
      ipv6_cidrs |-> [kind |-> "absent", items |-> <<>>]] : k \in {"absent", "other"}}
    \cup {[kind |-> "object", ipv4_cidrs |-> a, ipv6_cidrs |-> b] :
             a \in JsonList(ListBlocks4), b \in JsonList(ListBlocks6)}

Docs == [result : JsonResult, success : {"absent", "true", "false", "other"},
         extra : BOOLEAN]

NoDoc == [result |-> [kind |-> "absent", ipv4_cidrs |-> [kind |-> "absent", items |-> <<>>],
                      ipv6_cidrs |-> [kind |-> "absent", items |-> <<>>]],
          success |-> "absent", extra |-> FALSE]

\* Responses handed to try_from_response directly.
Responses ==
    {Success(a, b) : a \in BoundedSeq(ListBlocks4, MaxList),
                     b \in BoundedSeq(ListBlocks6, MaxList)}
    \cup {Failure(f) : f \in BOOLEAN}

(***************************************************************************)
(* The state machine.                                                      *)
(***************************************************************************)
InitFetch ==
    /\ pc = "start"
    /\ net = "none"
    /\ doc = NoDoc
    /\ res = NoResponse
    /\ out = Pending
    /\ stages = <<>>

\* TrustedIps::new() or TrustedIps::default().
Init ==
    /\ ips = new
    /\ hist = <<>>
    /\ prev = new
    /\ lastOp \in {"new", "default"}
    /\ InitFetch

AddIpRange(cidr) ==
    /\ Len(hist) < MaxOps
    /\ ips' = add_ip_range(ips, cidr)
    /\ hist' = Append(hist, cidr)
    /\ prev' = ips
    /\ lastOp' = "add_ip_range"
    /\ UNCHANGED fetchVars

\* The deprecated alias with_ip_range.
WithIpRange(cidr) ==
    /\ Len(hist) < MaxOps
    /\ ips' = add_ip_range(ips, cidr)
    /\ hist' = Append(hist, cidr)
    /\ prev' = ips
    /\ lastOp' = "with_ip_range"
    /\ UNCHANGED fetchVars

AddLoopbackIps ==
    /\ Len(hist) < MaxOps
    /\ ips' = add_loopback_ips(ips)
    /\ hist' = Append(hist, Cidr4(127, 0, 0, 0, 8))
    /\ prev' = ips
    /\ lastOp' = "add_loopback_ips"
    /\ UNCHANGED fetchVars

AddPrivateIps ==
    /\ Len(hist) + 2 <= MaxOps
    /\ ips' = add_private_ips(ips)
    /\ hist' = hist \o <<Cidr4(10, 0, 0, 0, 8), Cidr4(192, 168, 0, 0, 16)>>
    /\ prev' = ips
    /\ lastOp' = "add_private_ips"
    /\ UNCHANGED fetchVars

Clone ==
    /\ ips' = clone(ips)
    /\ prev' = ips
    /\ lastOp' = "clone"
    /\ UNCHANGED <<hist, fetchVars>>

Next ==
    \/ \E cidr \in Blocks : AddIpRange(cidr)
    \/ \E cidr \in Blocks : WithIpRange(cidr)
    \/ AddLoopbackIps
    \/ AddPrivateIps
    \/ Clone

Spec == Init /\ [][Next]_vars

\* fetch_trusted_cf_ips: the GET.
Send ==
    /\ pc = "start"
    /\ \E transportOk \in BOOLEAN :
          /\ net' = IF transportOk THEN "ok" ELSE "error"
          /\ pc' = SendStage(transportOk).pc
          /\ out' = SendStage(transportOk).out
          /\ IF transportOk THEN \E d \in Docs : doc' = d ELSE doc' = doc
    /\ stages' = Append(stages, "send")
    /\ UNCHANGED <<res, setVars>>

\* fetch_trusted_cf_ips: decoding the body.
DecodeBody ==
    /\ pc = "sent"
    /\ pc' = DecodeStage(doc).pc
    /\ res' = DecodeStage(doc).res
    /\ out' = DecodeStage(doc).out
    /\ stages' = Append(stages, "decode")
    /\ UNCHANGED <<net, doc, setVars>>

\* fetch_trusted_cf_ips: building the set from the decoded response.
Build ==
    /\ pc = "decoded"
    /\ pc' = BuildStage(res).pc
    /\ out' = BuildStage(res).out
    /\ stages' = Append(stages, "build")
    /\ UNCHANGED <<net, doc, res, setVars>>

\* The future is dropped at one of its two await points.
Cancel ==
    /\ pc \in {"start", "sent"}
    /\ pc' = "cancelled"
    /\ UNCHANGED <<net, doc, res, out, stages, setVars>>

\* A direct call of try_from_response on a response value.
CallTryFromResponse ==
    /\ pc = "start"
    /\ \E r \in Responses :
          /\ res' = r
          /\ out' = try_from_response(r)
    /\ pc' = "returned"
    /\ UNCHANGED <<net, doc, stages, setVars>>

FetchInit == Init /\ lastOp = "new"

FetchNext ==
    \/ Send
    \/ DecodeBody
    \/ Build
    \/ Cancel
    \/ CallTryFromResponse

FetchSpec == FetchInit /\ [][FetchNext]_vars

(***************************************************************************)
(* Reference notions used by the properties: a block as the numeric range  *)
(* from its first to its last address.                                     *)
(***************************************************************************)
LastAddr(c) == [k \in 1..Len(c.prefix) |-> c.prefix[k] + (2 ^ HostBits(k, c.bits)) - 1]

OctLE(a, b) == a = b \/ OctLT(a, b)

InBlock(c, ip) ==
    /\ ip.fam = c.fam
    /\ OctLE(c.prefix, ip.oct)
    /\ OctLE(ip.oct, LastAddr(c))

Loopback == Cidr4(127, 0, 0, 0, 8)

Private10 == Cidr4(10, 0, 0, 0, 8)

Private192 == Cidr4(192, 168, 0, 0, 16)

AllBlocks == Blocks \cup {Loopback, Private192}

AllStages == <<"send", "decode", "build">>

\* The body has the success shape: a result object holding both CIDR lists.
SuccessShape(d) ==
    /\ d.result.kind = "object"
    /\ d.result.ipv4_cidrs.kind = "list"
    /\ d.result.ipv6_cidrs.kind = "list"
    /\ \A k \in 1..Len(d.result.ipv4_cidrs.items) : d.result.ipv4_cidrs.items[k] # Invalid
    /\ \A k \in 1..Len(d.result.ipv6_cidrs.items) : d.result.ipv6_cidrs.items[k] # Invalid

\* Some list of the body's result object holds a structurally invalid block.
HasInvalidBlock(d) ==
    /\ d.result.kind = "object"
    /\ \/ \E k \in 1..Len(d.result.ipv4_cidrs.items) : d.result.ipv4_cidrs.items[k] = Invalid
       \/ \E k \in 1..Len(d.result.ipv6_cidrs.items) : d.result.ipv6_cidrs.items[k] = Invalid

(***************************************************************************)
(* C1.  contains(a) is true exactly when a lies inside at least one added  *)
(* block of a's own address family, whatever the order of the additions.   *)
(***************************************************************************)
C1_ContainsIffInAnAddedBlock ==
    \A a \in Addrs :
        contains(ips, a) <=> \E k \in 1..Len(hist) : InBlock(hist[k], a)

C1_Witness ==
    /\ Len(hist) >= 2
    /\ hist[1].fam # hist[2].fam
    /\ lastOp = "add_ip_range"
    /\ \E a \in Addrs : contains(ips, a)
    /\ \E a \in Addrs : ~contains(ips, a)

(***************************************************************************)
(* C2.  A set from new() or Default contains no address, IPv4 or IPv6,     *)
(* until a range is added.                                                 *)
(***************************************************************************)
C2_FreshSetTrustsNothing ==
    hist = <<>> => \A a \in Addrs : ~contains(ips, a)

C2_Witness ==
    /\ hist = <<>>
    /\ lastOp = "default"
    /\ ~contains(ips, V4(127, 0, 0, 1))
    /\ ~contains(ips, V6(0, 0, 0, 1))

(***************************************************************************)
(* C3.  From the empty set add_loopback_ips() trusts exactly 127.0.0.0/8;  *)
(* add_private_ips() on top trusts exactly 127.0.0.0/8, 10.0.0.0/8 and     *)
(* 192.168.0.0/16, and nothing of 172.16.0.0/12.                           *)
(***************************************************************************)
C3_PresetsAddDocumentedBlocks ==
    /\ hist = <<Loopback>> =>
          /\ \A a \in Addrs : contains(ips, a) <=> (a.fam = 4 /\ a.oct[1] = 127)
          /\ contains(ips, V4(127, 0, 0, 1))
          /\ ~contains(ips, V4(10, 0, 1, 1))
    /\ hist = <<Loopback, Private10, Private192>> =>
          /\ \A a \in Addrs :
                contains(ips, a) <=>
                    /\ a.fam = 4
                    /\ \/ a.oct[1] \in {127, 10}
                       \/ (a.oct[1] = 192 /\ a.oct[2] = 168)
          /\ contains(ips, V4(10, 0, 1, 1))
          /\ contains(ips, V4(192, 168, 1, 1))
          /\ \A a \in Addrs : InBlock(Cidr4(172, 16, 0, 0, 12), a) => ~contains(ips, a)

C3_Witness ==
    /\ hist = <<Loopback, Private10, Private192>>
    /\ lastOp = "add_private_ips"
    /\ contains(ips, V4(192, 168, 1, 1))
    /\ ~contains(ips, V4(172, 16, 0, 1))

(***************************************************************************)
(* C4.  try_from_response on a Failure response, whatever its success      *)
(* flag, returns Err(CfIpsFetchErr::Fetch) and no set.                     *)
(***************************************************************************)
C4_FailureNeverYieldsSet ==
    (pc \in {"done", "returned"} /\ res.kind = "Failure") => out = Err("Fetch")

C4_Witness ==
    /\ pc = "returned"
    /\ res = Failure(TRUE)
    /\ out = Err("Fetch")

(***************************************************************************)
(* C5.  try_from_response on a Success response returns Ok with a set      *)
(* whose members are exactly the addresses of the listed IPv4 and IPv6     *)
(* blocks; 0.0.0.0/0 with ::/0 yields a set containing every address.      *)
(***************************************************************************)
C5_SuccessYieldsUnionOfLists ==
    (pc \in {"done", "returned"} /\ res.kind = "Success") =>
        /\ out.kind = "Ok"
        /\ \A a \in Addrs :
              contains(out.value, a) <=>
                  \/ \E k \in 1..Len(res.result.ipv4_cidrs) :
                        InBlock(Tag(4, res.result.ipv4_cidrs[k]), a)
                  \/ \E k \in 1..Len(res.result.ipv6_cidrs) :
                        InBlock(Tag(6, res.result.ipv6_cidrs[k]), a)
        /\ ( /\ res.result.ipv4_cidrs = <<Untag(Cidr4(0, 0, 0, 0, 0))>>
             /\ res.result.ipv6_cidrs = <<Untag(Cidr6(0, 0, 0, 0, 0))>> )
           => \A a \in Addrs : contains(out.value, a)

C5_Witness ==
    /\ pc = "returned"
    /\ res = Success(<<Untag(Cidr4(0, 0, 0, 0, 0))>>, <<Untag(Cidr6(0, 0, 0, 0, 0))>>)
    /\ out.kind = "Ok"
    /\ \A a \in Addrs : contains(out.value, a)

(***************************************************************************)
(* C6.  fetch_trusted_cf_ips runs send, decode, build once each in that    *)
(* order; the first failing stage ends the call with Err(Fetch) and no     *)
(* later stage runs; Ok is returned only after all three succeeded; a      *)
(* body with an invalid block never yields a set; before the call ends     *)
(* (or when it is dropped) no result exists.                               *)
(***************************************************************************)
C6_StagesOnceInOrderAllOrNothing ==
    /\ \E n \in 0..Len(AllStages) : stages = SubSeq(AllStages, 1, n)
    /\ pc \notin {"done", "returned"} => out = Pending
    /\ pc = "done" =>
          /\ net = "error" => (stages = <<"send">> /\ out = Err("Fetch"))
          /\ (net = "ok" /\ Decode(doc).kind = "Err") =>
                (stages = <<"send", "decode">> /\ out = Err("Fetch"))
          /\ (net = "ok" /\ Decode(doc).kind = "Ok" /\ Decode(doc).value.kind = "Failure") =>
                (stages = AllStages /\ out = Err("Fetch"))
          /\ out.kind = "Ok" =>
                /\ net = "ok"
                /\ stages = AllStages
                /\ SuccessShape(doc)
                /\ \A k \in 1..Len(doc.result.ipv4_cidrs.items) :
                      CombinerContains(out.value.cidr_ranges.v4,
                                       doc.result.ipv4_cidrs.items[k].cidr.prefix)
                /\ \A k \in 1..Len(doc.result.ipv6_cidrs.items) :
                      CombinerContains(out.value.cidr_ranges.v6,
                                       doc.result.ipv6_cidrs.items[k].cidr.prefix)
          /\ HasInvalidBlock(doc) => out = Err("Fetch")

C6_Witness ==
    /\ pc = "done"
    /\ net = "ok"
    /\ HasInvalidBlock(doc)
    /\ doc.success = "absent"
    /\ stages = <<"send", "decode">>
    /\ out = Err("Fetch")

(***************************************************************************)
(* C7.  A clone answers contains exactly as the set it was cloned from,    *)
(* for every address.                                                      *)
(***************************************************************************)
C7_ClonePreservesMembership ==
    lastOp = "clone" => \A a \in Addrs : contains(ips, a) = contains(prev, a)

C7_Witness ==
    /\ lastOp = "clone"
    /\ prev.cidr_ranges.v4 # <<>>
    /\ prev.cidr_ranges.v6 # <<>>
    /\ \E a \in Addrs : a.fam = 6 /\ contains(ips, a)
    /\ \E a \in Addrs : a.fam = 6 /\ ~contains(ips, a)

(***************************************************************************)
(* C8.  Adding a block a second time changes neither any contains answer   *)
(* nor the exported block lists.                                           *)
(***************************************************************************)
C8_InsertionIdempotent ==
    /\ \A b \in AllBlocks :
          \A once \in {add_ip_range(ips, b)} :
              \A twice \in {add_ip_range(once, b)} :
                  /\ twice.cidr_ranges.v4 = once.cidr_ranges.v4
                  /\ twice.cidr_ranges.v6 = once.cidr_ranges.v6
    /\ ( /\ lastOp \in {"add_ip_range", "with_ip_range"}
         /\ Len(hist) >= 2
         /\ hist[Len(hist)] = hist[Len(hist) - 1] )
       => /\ ips.cidr_ranges.v4 = prev.cidr_ranges.v4
          /\ ips.cidr_ranges.v6 = prev.cidr_ranges.v6
          /\ \A a \in Addrs : contains(ips, a) = contains(prev, a)

C8_Witness ==
    /\ Len(hist) = 3
    /\ hist[2] = hist[3]
    /\ hist[1] # hist[2]
    /\ lastOp = "add_ip_range"
    /\ ips = prev
    /\ Len(ips.cidr_ranges.v4) = 2

(***************************************************************************)
(* C9.  Each family's exported list is sorted, its blocks are pairwise     *)
(* disjoint, and no two of them are the two halves of a larger block;      *)
(* 10.0.0.0/9 and 10.128.0.0/9 are exported as the single 10.0.0.0/8.      *)
(***************************************************************************)
Minimal(list) ==
    /\ \A i \in 1..Len(list) : \A j \in 1..Len(list) :
          i < j => OctLT(LastAddr(list[i]), list[j].prefix)
    /\ \A i \in 1..Len(list) : \A j \in 1..Len(list) :
          (i # j /\ list[i].bits = list[j].bits /\ list[i].bits >= 1) =>
              MaskOctets(list[i].prefix, list[i].bits - 1)
                  # MaskOctets(list[j].prefix, list[j].bits - 1)

C9_ExportedListSortedDisjointMinimal ==
    /\ Minimal(ips.cidr_ranges.v4)
    /\ Minimal(ips.cidr_ranges.v6)
    /\ (\E i, j \in 1..Len(hist) :
           hist[i] = Cidr4(10, 0, 0, 0, 9) /\ hist[j] = Cidr4(10, 128, 0, 0, 9))
       => \E k \in 1..Len(ips.cidr_ranges.v4) :
             /\ ips.cidr_ranges.v4[k].bits <= 8
             /\ CidrContains(ips.cidr_ranges.v4[k], <<10, 0, 0, 0>>)
    /\ hist \in {<<Cidr4(10, 0, 0, 0, 9), Cidr4(10, 128, 0, 0, 9)>>,
                 <<Cidr4(10, 128, 0, 0, 9), Cidr4(10, 0, 0, 0, 9)>>}
       => ips.cidr_ranges.v4 = <<Cidr4(10, 0, 0, 0, 8)>>

C9_Witness ==
    /\ hist = <<Cidr4(10, 0, 0, 0, 9), Cidr4(10, 128, 0, 0, 9)>>
    /\ lastOp = "add_ip_range"
    /\ Len(prev.cidr_ranges.v4) = 1
    /\ ips.cidr_ranges.v4 = <<Cidr4(10, 0, 0, 0, 8)>>

(***************************************************************************)
(* C10.  Decoding tries the success shape first and the failure shape      *)
(* second: a body with a result object holding both CIDR lists decodes as  *)
(* Success whatever else it carries; otherwise a boolean success field     *)
(* makes it a Failure; otherwise decoding fails.                           *)
(***************************************************************************)
C10_DecodeSuccessShapeFirst ==
    Len(stages) >= 2 =>
        /\ SuccessShape(doc) =>
              res = Success(Items(doc.result.ipv4_cidrs), Items(doc.result.ipv6_cidrs))
        /\ (~SuccessShape(doc) /\ doc.success \in {"true", "false"}) =>
              res = Failure(doc.success = "true")
        /\ (~SuccessShape(doc) /\ doc.success \notin {"true", "false"}) =>
              /\ res = NoResponse
              /\ pc = "done"
              /\ out = Err("Fetch")
              /\ stages = <<"send", "decode">>

C10_Witness ==
    /\ Len(stages) >= 2
    /\ SuccessShape(doc)
    /\ doc.success = "false"
    /\ doc.extra
    /\ res.kind = "Success"
    /\ Len(res.result.ipv4_cidrs) = 2

==========================================================================
